---- MODULE Spec2Model ----
(***************************************************************************)
(* A model of stay-true: the CSV parser, the iTunes enrichment script and  *)
(* the navigation state of the App component (src/src/App.tsx).            *)
(*                                                                         *)
(* A JavaScript string is a sequence of one-character strings, so that     *)
(* toLowerCase, trim, includes, split and the artwork regular expression   *)
(* are computed character by character.  The value undefined is the        *)
(* one-element sequence Undefined, whose element is no character.          *)
(***************************************************************************)
EXTENDS Integers, Sequences, FiniteSets, TLC

VARIABLES
    \* ---- enrichSongs (App.tsx 387-495) ----
    storage,        \* songs.json: the persisted sequence of records
    songs,          \* the array parsed from songs.json by the running script
    songsToEnrich,  \* indices into songs of the filtered records (shared references)
    i,              \* loop index, 0-based as in the code
    queryCount,
    enrichedCount,
    skippedCount,
    bestMatch,      \* the candidate awaiting the operator's answer
    matchType,
    pc,             \* position of the script: idle | loop | fetch | prompt | sleep | write | done
    runs,           \* invocations of the script started so far
    faults,         \* responses so far that differed from the catalog's usual answer
    issued,         \* fetch calls made by the current run
    writes,         \* writeFileSync calls made by the current run
    lastOp,         \* what the last step of the script did
    startSongs,     \* the array as read at the start of the current run
    \* ---- findBestMatch applied to drawn inputs ----
    mResults, mExpected, mOut, mPc,
    \* ---- App component ----
    numSongs, currentIndex, isPlaying, isMuted, audioMuted, audioPaused, audioEvents, uiLast,
    uiSongs,        \* songsData: the records of the songs.json the page imports
    \* ---- parseCSV (App.tsx 187-232) ----
    csvRows, outSongs, rowIndex, jsonFile, parsePc,
    \* ---- parseCSVRow applied to drawn rows ----
    rowText, rowFields, rowPc

enrichVars == <<storage, songs, songsToEnrich, i, queryCount, enrichedCount, skippedCount,
                bestMatch, matchType, pc, runs, faults, issued, writes, lastOp, startSongs>>
matchVars  == <<mResults, mExpected, mOut, mPc>>
uiVars     == <<numSongs, currentIndex, isPlaying, isMuted, audioMuted, audioPaused,
                audioEvents, uiLast, uiSongs>>
parseVars  == <<csvRows, outSongs, rowIndex, jsonFile, parsePc>>
rowVars    == <<rowText, rowFields, rowPc>>
vars       == <<enrichVars, matchVars, uiVars, parseVars, rowVars>>

-----------------------------------------------------------------------------
(* JavaScript values and string primitives *)

Undefined == <<"undefined">>
Null      == [null |-> TRUE]
NaN       == [nan |-> TRUE]

\* !v for a value that is a string or undefined
Falsy(v) == v = Undefined \/ v = <<>>

LowerChar(c) ==
    CASE c = "X" -> "x"
      [] c = "Y" -> "y"
      [] c = "N" -> "n"
      [] c = "E" -> "e"
      [] c = "S" -> "s"
      [] c = "B" -> "b"
      [] c = "J" -> "j"
      [] c = "P" -> "p"
      [] c = "G" -> "g"
      [] OTHER   -> c

toLowerCase(s) == [k \in 1..Len(s) |-> LowerChar(s[k])]

IsSpace(c) == c = " "

\* String.prototype.trim: drop the leading and the trailing white space
trim(s) ==
    LET keep == {k \in 1..Len(s) : ~IsSpace(s[k])}
    IN  IF keep = {} THEN <<>>
        ELSE LET lo == CHOOSE k \in keep : \A j \in keep : k <= j
                 hi == CHOOSE k \in keep : \A j \in keep : k >= j
             IN  SubSeq(s, lo, hi)

\* String.prototype.includes
includes(s, t) ==
    \E off \in 0..(Len(s) - Len(t)) : \A k \in 1..Len(t) : s[off + k] = t[k]

\* Array.prototype.find over the flags of the predicate: index of the first
\* element satisfying it, 0 when there is none
RECURSIVE firstTrue(_, _)
firstTrue(flags, k) ==
    IF k > Len(flags) THEN 0
    ELSE IF flags[k] THEN k
    ELSE firstTrue(flags, k + 1)

IsDigit(c) == c \in {"0", "1", "2", "3", "4", "5", "6", "7", "8", "9"}

DigitChar(d) ==
    CASE d = 0 -> "0" [] d = 1 -> "1" [] d = 2 -> "2" [] d = 3 -> "3" [] d = 4 -> "4"
      [] d = 5 -> "5" [] d = 6 -> "6" [] d = 7 -> "7" [] d = 8 -> "8" [] d = 9 -> "9"

DigitVal(c) ==
    CASE c = "0" -> 0 [] c = "1" -> 1 [] c = "2" -> 2 [] c = "3" -> 3 [] c = "4" -> 4
      [] c = "5" -> 5 [] c = "6" -> 6 [] c = "7" -> 7 [] c = "8" -> 8 [] c = "9" -> 9

\* Number.prototype.toString of a natural number
RECURSIVE toString(_)
toString(n) ==
    IF n < 10 THEN <<DigitChar(n)>>
    ELSE Append(toString(n \div 10), DigitChar(n % 10))

-----------------------------------------------------------------------------
(* findBestMatch (App.tsx 299-326) *)

IsExactMatch(r, normalizedExpected) ==
    trim(toLowerCase(r.collectionName)) = normalizedExpected

IsPartialMatch(r, normalizedExpected) ==
    LET resultAlbum == trim(toLowerCase(r.collectionName))
    IN  includes(resultAlbum, normalizedExpected) \/ includes(normalizedExpected, resultAlbum)

\* a plausible slip: the two searches in the wrong order
findBestMatch_partialFirst(results, expectedAlbum) ==
    IF Len(results) = 0 THEN <<Null, "none">>
    ELSE
      LET normalizedExpected == trim(toLowerCase(expectedAlbum))
          partialMatch == firstTrue([k \in 1..Len(results) |->
                              IsPartialMatch(results[k], normalizedExpected)], 1)
          exactMatch == firstTrue([k \in 1..Len(results) |->
                              IsExactMatch(results[k], normalizedExpected)], 1)
      IN  IF normalizedExpected = <<>> THEN <<results[1], "partial">>
          ELSE IF partialMatch # 0 /\ exactMatch # partialMatch
               THEN <<results[partialMatch], "partial">>
          ELSE IF exactMatch # 0 THEN <<results[exactMatch], "exact">>
          ELSE <<results[1], "none">>

\* returns <<result, matchType>>
findBestMatch(results, expectedAlbum) ==
    IF Len(results) = 0 THEN <<Null, "none">>
    ELSE
      LET normalizedExpected == trim(toLowerCase(expectedAlbum))
          exactMatch == firstTrue([k \in 1..Len(results) |->
                              IsExactMatch(results[k], normalizedExpected)], 1)
          partialMatch == firstTrue([k \in 1..Len(results) |->
                              IsPartialMatch(results[k], normalizedExpected)], 1)
      IN  IF normalizedExpected = <<>> THEN <<results[1], "partial">>
          ELSE IF exactMatch # 0 THEN <<results[exactMatch], "exact">>
          ELSE IF partialMatch # 0 THEN <<results[partialMatch], "partial">>
          ELSE <<results[1], "none">>

-----------------------------------------------------------------------------
(* promptUser (App.tsx 347-359): the answer typed by the operator *)

\* a prompt that takes the empty line for the default answer yes
promptUser_emptyYes(answer) ==
    answer = <<>> \/ toLowerCase(answer) = <<"y">> \/ toLowerCase(answer) = <<"y", "e", "s">>

promptUser(answer) ==
    toLowerCase(answer) = <<"y">> \/ toLowerCase(answer) = <<"y", "e", "s">>

-----------------------------------------------------------------------------
(* needsEnrichment (App.tsx 371-373) *)

needsEnrichment(song) ==
    Falsy(song.itunesTrackId) \/ Falsy(song.previewUrl) \/ Falsy(song.albumArt)

-----------------------------------------------------------------------------
(* getHighResArtwork (App.tsx 378-382) *)

HighRes == <<"/", "1", "0", "0", "0", "x", "1", "0", "0", "0", "b", "b", ".", "j", "p", "g">>

\* s from position p to its end matches /\/\d+x\d+bb\.(jpg|png)$/i
ArtworkSuffixAt(s, p) ==
    LET L == Len(s)
    IN  /\ L - p + 1 >= 10
        /\ s[p] = "/"
        /\ toLowerCase(SubSeq(s, L - 2, L)) \in {<<"j", "p", "g">>, <<"p", "n", "g">>}
        /\ s[L - 3] = "."
        /\ toLowerCase(SubSeq(s, L - 5, L - 4)) = <<"b", "b">>
        /\ \E k \in (p + 2)..(L - 7) :
              /\ LowerChar(s[k]) = "x"
              /\ \A j \in (p + 1)..(k - 1) : IsDigit(s[j])
              /\ \A j \in (k + 1)..(L - 6) : IsDigit(s[j])

getHighResArtwork(artworkUrl) ==
    IF Falsy(artworkUrl) THEN <<>>
    ELSE
      LET starts == {p \in 1..Len(artworkUrl) : ArtworkSuffixAt(artworkUrl, p)}
      IN  IF starts = {} THEN artworkUrl
          ELSE LET p == CHOOSE q \in starts : \A r \in starts : q <= r
               IN  SubSeq(artworkUrl, 1, p - 1) \o HighRes

-----------------------------------------------------------------------------
(* The records of songs.json and the iTunes catalog they are looked up in *)

MAX_QUERIES == 15

NumSongs      == 17   \* records in a songs.json larger than the query budget
FewSongs      == 2    \* records in a short songs.json
MaxRuns       == 2    \* invocations of the enrichment script
MaxDeviations == 1    \* responses that differ from the catalog's usual answer

Num(n) == [num |-> n]

Artist == <<"r">>

Art100 == <<"h", "/", "1", "0", "0", "x", "1", "0", "0", "b", "b", ".", "j", "p", "g">>
Art60  == <<"h", "/", "6", "0", "X", "6", "0", "B", "B", ".", "P", "N", "G">>

\* iTunesSearchResult (App.tsx 264-273); the displayed-only fields are left out
Candidate(id, coll, preview, art) ==
    [trackId |-> id, collectionName |-> coll, previewUrl |-> preview, artworkUrl100 |-> art]

\* SongEntry (App.tsx 251-262)
Song(id, title, album, track, preview, art) ==
    [id |-> id, title |-> title, artist |-> Artist, album |-> album,
     year |-> Num(1995), page |-> Num(24), characters |-> <<<<"K">>>>,
     itunesTrackId |-> track, previewUrl |-> preview, albumArt |-> art]

\* iTunesResponse (App.tsx 275-278), or the way the call failed
Body(count, results) == [kind |-> "body", resultCount |-> count, results |-> results]
Failure(kind)        == [kind |-> kind, resultCount |-> 0, results |-> <<>>]

\* what the service usually answers to a query
Catalog(query) ==
    CASE query = <<"r", " ", "a">> ->
             Body(2, <<Candidate(11, <<"x", "y">>, <<"u">>, Art100),
                       Candidate(12, <<" ", "X">>, <<"v">>, Art60)>>)
      [] query = <<"r", " ", "p">> ->
             Body(1, <<Candidate(13, <<"x">>, Undefined, Art100)>>)
      [] query = <<"r", " ", "w">> ->
             Body(1, <<Candidate(14, <<"x">>, <<"u">>, Undefined)>>)
      [] OTHER -> Body(0, <<>>)

\* answers that differ from the usual one: the call fails (network error, non-2xx
\* status, a body that is not JSON, JSON without the expected fields), or the
\* catalog has changed
Deviations ==
    {Failure("network"), Failure("status"), Failure("json"), Failure("shape"),
     Body(1, <<>>), Body(0, <<>>),
     Body(1, <<Candidate(15, <<"X">>, Undefined, Undefined)>>),
     Body(1, <<Candidate(16, <<"q">>, <<"u">>, <<"h", "/", "a", ".", "j", "p", "g">>)>>)}

Answers == {<<>>, <<"y">>, <<"Y">>, <<"y", "e", "s">>, <<"Y", "e", "S">>,
            <<"n">>, <<"n", "o">>, <<" ", "y">>, <<"y", "e">>}

EnrichedArt == <<"h">> \o HighRes

HeadKinds ==
    {Song(<<>>, <<"a">>, <<"x">>, Undefined, Undefined, Undefined),
     Song(<<>>, <<"a">>, <<>>, Undefined, Undefined, Undefined),
     Song(<<>>, <<"a">>, <<"z">>, Undefined, Undefined, Undefined),
     Song(<<>>, Undefined, <<"x">>, Undefined, Undefined, Undefined),
     Song(<<>>, <<>>, <<"x">>, Undefined, Undefined, Undefined),
     Song(<<>>, <<"p">>, <<"x">>, Undefined, Undefined, Undefined),
     Song(<<>>, <<"w">>, <<"x">>, Undefined, Undefined, Undefined),
     Song(<<>>, <<"n">>, <<"x">>, Undefined, Undefined, Undefined),
     Song(<<>>, <<"a">>, <<"x">>, <<"1", "2">>, <<"v">>, EnrichedArt)}

PadKinds ==
    {Song(<<>>, <<"a">>, <<"x">>, Undefined, Undefined, Undefined),
     Song(<<>>, <<"a">>, <<"x">>, <<"1", "2">>, <<"v">>, EnrichedArt)}

LongHeads ==
    {Song(<<>>, <<"a">>, <<"x">>, Undefined, Undefined, Undefined),
     Song(<<>>, <<"a">>, <<>>, Undefined, Undefined, Undefined),
     Song(<<>>, <<"n">>, <<"x">>, Undefined, Undefined, Undefined)}

\* a songs.json as parseCSV numbers it: one record of interest among like records
Store(head, headPos, pad, n) ==
    [k \in 1..n |-> [(IF k = headPos THEN head ELSE pad) EXCEPT !.id = toString(k)]]

\* short files with every kind of record, files with more unenriched records
\* than the query budget, and a file whose last record is in the catalog while
\* the records before it are not
Stores ==
    {Store(h, pos, p, FewSongs) : h \in HeadKinds, pos \in {1, FewSongs}, p \in PadKinds}
    \cup {Store(h, 1, Song(<<>>, <<"a">>, <<"x">>, Undefined, Undefined, Undefined), NumSongs) :
             h \in LongHeads}
    \cup {Store(Song(<<>>, <<"a">>, <<"x">>, Undefined, Undefined, Undefined), NumSongs,
                Song(<<>>, <<"n">>, <<"x">>, Undefined, Undefined, Undefined), NumSongs)}

-----------------------------------------------------------------------------
(* enrichSongs (App.tsx 387-495) *)

Truthy(v) == ~Falsy(v)

\* songs.filter(song => song.title && needsEnrichment(song)), as indices
RECURSIVE filterToEnrich(_, _)
filterToEnrich(list, k) ==
    IF k > Len(list) THEN <<>>
    ELSE IF Truthy(list[k].title) /\ needsEnrichment(list[k])
         THEN <<k>> \o filterToEnrich(list, k + 1)
         ELSE filterToEnrich(list, k + 1)

\* the record the loop is at
Cur == songsToEnrich[i + 1]

Query(song) == song.artist \o <<" ">> \o song.title

\* searchItunes (App.tsx 283-293) throws on these
SearchThrows(resp) == resp.kind \in {"network", "status", "json"}

Responses(song) ==
    {Catalog(Query(song))} \cup (IF faults < MaxDeviations THEN Deviations ELSE {})

NoteDeviation(song, resp) ==
    faults' = IF resp = Catalog(Query(song)) THEN faults ELSE faults + 1

Log(line, answer, kind) ==
    [log |-> line, answer |-> answer, resp |-> kind,
     errors |-> IF line = "start" THEN 0
                ELSE IF line = "Error" THEN lastOp.errors + 1 ELSE lastOp.errors]

\* an update that also takes the album name from the candidate
Commit_alsoAlbum(list, k, cand) ==
    [list EXCEPT ![k].itunesTrackId = toString(cand.trackId),
                 ![k].previewUrl = IF Falsy(cand.previewUrl) THEN <<>> ELSE cand.previewUrl,
                 ![k].albumArt = getHighResArtwork(cand.artworkUrl100),
                 ![k].album = cand.collectionName]

\* lines 457-461
Commit(list, k, cand) ==
    [list EXCEPT ![k].itunesTrackId = toString(cand.trackId),
                 ![k].previewUrl = IF Falsy(cand.previewUrl) THEN <<>> ELSE cand.previewUrl,
                 ![k].albumArt = getHighResArtwork(cand.artworkUrl100)]

\* lines 470-473: the pause, unless this was the last record
ThenSleep ==
    IF i < Len(songsToEnrich) - 1
    THEN pc' = "sleep" /\ i' = i
    ELSE pc' = "loop" /\ i' = i + 1

\* JSON.stringify followed by JSON.parse: an undefined field is dropped and reads
\* back undefined, NaN is written as null
JsonNumber(v) == IF v = NaN THEN Null ELSE v

JsonRoundTrip(list) ==
    [k \in 1..Len(list) |->
        [list[k] EXCEPT !.year = JsonNumber(@), !.page = JsonNumber(@)]]

\* lines 388-405
StartRun ==
    /\ pc \in {"idle", "done"}
    /\ runs < MaxRuns
    /\ runs' = runs + 1
    /\ songs' = storage
    /\ startSongs' = storage
    /\ songsToEnrich' = filterToEnrich(storage, 1)
    /\ pc' = IF Len(filterToEnrich(storage, 1)) = 0 THEN "done" ELSE "loop"
    /\ i' = 0 /\ queryCount' = 0 /\ enrichedCount' = 0 /\ skippedCount' = 0
    /\ issued' = 0 /\ writes' = 0
    /\ bestMatch' = Null /\ matchType' = "none"
    /\ lastOp' = Log("start", <<>>, "")
    /\ UNCHANGED <<storage, faults>>

\* lines 408-427: the loop test, the budget test, and the call of searchItunes
LoopNext ==
    /\ pc = "loop"
    /\ IF i < Len(songsToEnrich) /\ queryCount < MAX_QUERIES
       THEN /\ pc' = "fetch"
            /\ issued' = issued + 1
            /\ lastOp' = Log("Searching", <<>>, "")
       ELSE /\ pc' = "write"
            /\ issued' = issued
            /\ lastOp' = Log(IF i < Len(songsToEnrich) THEN "Reached query limit"
                             ELSE "loop ended", <<>>, "")
    /\ UNCHANGED <<storage, songs, songsToEnrich, i, queryCount, enrichedCount,
                   skippedCount, bestMatch, matchType, runs, faults, writes, startSongs>>

\* a try block around the whole loop: the first failure ends the loop
FetchFails_abort ==
    /\ pc = "fetch"
    /\ \E resp \in Responses(songs[Cur]) :
          /\ SearchThrows(resp)
          /\ NoteDeviation(songs[Cur], resp)
          /\ lastOp' = Log("Error", <<>>, resp.kind)
    /\ skippedCount' = skippedCount + 1
    /\ i' = i + 1
    /\ pc' = "write"
    /\ UNCHANGED <<storage, songs, songsToEnrich, queryCount, enrichedCount,
                   bestMatch, matchType, runs, issued, writes, startSongs>>

\* lines 427, 475-478: searchItunes throws, the catch block counts the record skipped
FetchFails ==
    /\ pc = "fetch"
    /\ \E resp \in Responses(songs[Cur]) :
          /\ SearchThrows(resp)
          /\ NoteDeviation(songs[Cur], resp)
          /\ lastOp' = Log("Error", <<>>, resp.kind)
    /\ skippedCount' = skippedCount + 1
    /\ i' = i + 1
    /\ pc' = "loop"
    /\ UNCHANGED <<storage, songs, songsToEnrich, queryCount, enrichedCount,
                   bestMatch, matchType, runs, issued, writes, startSongs>>

\* lines 427-473: searchItunes returns a body
FetchReturns ==
    /\ pc = "fetch"
    /\ \E resp \in Responses(songs[Cur]) :
          /\ ~SearchThrows(resp)
          /\ NoteDeviation(songs[Cur], resp)
          /\ queryCount' = queryCount + 1
          /\ IF resp.kind = "shape"
             THEN \* data.results is undefined: findBestMatch throws, line 303
                  /\ skippedCount' = skippedCount + 1
                  /\ i' = i + 1 /\ pc' = "loop"
                  /\ lastOp' = Log("Error", <<>>, resp.kind)
                  /\ UNCHANGED <<songs, enrichedCount, bestMatch, matchType>>
             ELSE IF resp.resultCount = 0
             THEN /\ skippedCount' = skippedCount + 1
                  /\ i' = i + 1 /\ pc' = "loop"
                  /\ lastOp' = Log("No results found", <<>>, resp.kind)
                  /\ UNCHANGED <<songs, enrichedCount, bestMatch, matchType>>
             ELSE \E found \in {findBestMatch(resp.results, songs[Cur].album)} :
                      /\ bestMatch' = found[1]
                      /\ matchType' = found[2]
                      /\ IF found[1] = Null
                         THEN /\ skippedCount' = skippedCount + 1
                              /\ i' = i + 1 /\ pc' = "loop"
                              /\ lastOp' = Log("No suitable match found", <<>>, resp.kind)
                              /\ UNCHANGED <<songs, enrichedCount>>
                         ELSE IF found[2] = "exact"
                         THEN /\ songs' = Commit(songs, Cur, found[1])
                              /\ enrichedCount' = enrichedCount + 1
                              /\ ThenSleep
                              /\ lastOp' = Log("Updated", <<>>, resp.kind)
                              /\ UNCHANGED skippedCount
                         ELSE /\ pc' = "prompt"
                              /\ lastOp' = Log("Use this result?", <<>>, resp.kind)
                              /\ UNCHANGED <<songs, i, enrichedCount, skippedCount>>
    /\ UNCHANGED <<storage, songsToEnrich, runs, issued, writes, startSongs>>

\* lines 454-473: the operator answers the prompt
PromptAnswer ==
    /\ pc = "prompt"
    /\ \E answer \in Answers :
          IF promptUser(answer)
          THEN /\ songs' = Commit(songs, Cur, bestMatch)
               /\ enrichedCount' = enrichedCount + 1
               /\ lastOp' = Log("Updated", answer, "")
               /\ UNCHANGED skippedCount
          ELSE /\ skippedCount' = skippedCount + 1
               /\ lastOp' = Log("Skipped", answer, "")
               /\ UNCHANGED <<songs, enrichedCount>>
    /\ ThenSleep
    /\ UNCHANGED <<storage, songsToEnrich, queryCount, bestMatch, matchType, runs,
                   faults, issued, writes, startSongs>>

\* a loop that forgets to advance after the pause
SleepDone_sameRecord ==
    /\ pc = "sleep"
    /\ i' = i
    /\ pc' = "loop"
    /\ lastOp' = Log("slept", <<>>, "")
    /\ UNCHANGED <<storage, songs, songsToEnrich, queryCount, enrichedCount, skippedCount,
                   bestMatch, matchType, runs, faults, issued, writes, startSongs>>

\* line 472: the 500 ms pause is over
SleepDone ==
    /\ pc = "sleep"
    /\ i' = i + 1
    /\ pc' = "loop"
    /\ lastOp' = Log("slept", <<>>, "")
    /\ UNCHANGED <<storage, songs, songsToEnrich, queryCount, enrichedCount, skippedCount,
                   bestMatch, matchType, runs, faults, issued, writes, startSongs>>

\* a write that is skipped when no record was updated
WriteBack_onlyIfChanged ==
    /\ pc = "write"
    /\ storage' = IF enrichedCount > 0 THEN JsonRoundTrip(songs) ELSE storage
    /\ writes' = IF enrichedCount > 0 THEN writes + 1 ELSE writes
    /\ pc' = "done"
    /\ lastOp' = Log("Updated songs.json", <<>>, "")
    /\ UNCHANGED <<songs, songsToEnrich, i, queryCount, enrichedCount, skippedCount,
                   bestMatch, matchType, runs, faults, issued, startSongs>>

\* lines 481-494
WriteBack ==
    /\ pc = "write"
    /\ storage' = JsonRoundTrip(songs)
    /\ writes' = writes + 1
    /\ pc' = "done"
    /\ lastOp' = Log("Updated songs.json", <<>>, "")
    /\ UNCHANGED <<songs, songsToEnrich, i, queryCount, enrichedCount, skippedCount,
                   bestMatch, matchType, runs, faults, issued, startSongs>>

EnrichInit ==
    /\ storage \in Stores
    /\ songs = <<>> /\ songsToEnrich = <<>> /\ startSongs = <<>>
    /\ i = 0 /\ queryCount = 0 /\ enrichedCount = 0 /\ skippedCount = 0
    /\ bestMatch = Null /\ matchType = "none"
    /\ pc = "idle" /\ runs = 0 /\ faults = 0 /\ issued = 0 /\ writes = 0
    /\ lastOp = [log |-> "start", answer |-> <<>>, resp |-> "", errors |-> 0]

EnrichIdle ==
    /\ storage = <<>>
    /\ songs = <<>> /\ songsToEnrich = <<>> /\ startSongs = <<>>
    /\ i = 0 /\ queryCount = 0 /\ enrichedCount = 0 /\ skippedCount = 0
    /\ bestMatch = Null /\ matchType = "none"
    /\ pc = "off" /\ runs = 0 /\ faults = 0 /\ issued = 0 /\ writes = 0
    /\ lastOp = [log |-> "start", answer |-> <<>>, resp |-> "", errors |-> 0]

MatchIdle == mResults = <<>> /\ mExpected = <<>> /\ mOut = <<Null, "none">> /\ mPc = "off"

UiIdle ==
    /\ numSongs = 0 /\ currentIndex = 0 /\ isPlaying = FALSE /\ isMuted = FALSE
    /\ audioMuted = FALSE /\ audioPaused = TRUE /\ audioEvents = <<>> /\ uiLast = "off"
    /\ uiSongs = <<>>

ParseIdle == csvRows = <<>> /\ outSongs = <<>> /\ rowIndex = 0 /\ jsonFile = Undefined
             /\ parsePc = "off"

RowIdle == rowText = <<>> /\ rowFields = <<>> /\ rowPc = "off"

Init == EnrichInit /\ MatchIdle /\ UiIdle /\ ParseIdle /\ RowIdle

Next ==
    \/ StartRun /\ UNCHANGED <<matchVars, uiVars, parseVars, rowVars>>
    \/ LoopNext /\ UNCHANGED <<matchVars, uiVars, parseVars, rowVars>>
    \/ FetchFails /\ UNCHANGED <<matchVars, uiVars, parseVars, rowVars>>
    \/ FetchReturns /\ UNCHANGED <<matchVars, uiVars, parseVars, rowVars>>
    \/ PromptAnswer /\ UNCHANGED <<matchVars, uiVars, parseVars, rowVars>>
    \/ SleepDone /\ UNCHANGED <<matchVars, uiVars, parseVars, rowVars>>
    \/ WriteBack /\ UNCHANGED <<matchVars, uiVars, parseVars, rowVars>>

Spec == Init /\ [][Next]_vars

\* the operator starts the script once more, any number of times
Rerun ==
    /\ pc \in {"idle", "done"}
    /\ runs = MaxRuns
    /\ songs' = storage
    /\ startSongs' = storage
    /\ songsToEnrich' = filterToEnrich(storage, 1)
    /\ pc' = IF Len(filterToEnrich(storage, 1)) = 0 THEN "done" ELSE "loop"
    /\ i' = 0 /\ queryCount' = 0 /\ enrichedCount' = 0 /\ skippedCount' = 0
    /\ issued' = 0 /\ writes' = 0
    /\ bestMatch' = Null /\ matchType' = "none"
    /\ lastOp' = Log("start", <<>>, "")
    /\ UNCHANGED <<storage, faults, runs>>

NextRepeat ==
    \/ Next
    \/ Rerun /\ UNCHANGED <<matchVars, uiVars, parseVars, rowVars>>

\* every call of the script returns and the operator keeps starting it: each await
\* of a run resolves (fetch, the prompt, the timer), so a step that can be taken
\* is taken
SpecRepeat == Init /\ [][NextRepeat]_vars /\ WF_vars(NextRepeat)

-----------------------------------------------------------------------------
(* Properties of enrichSongs *)

InRun == pc \in {"loop", "fetch", "prompt", "sleep", "write"}

\* C1: a run over more than MAX_QUERIES titled, unenriched records issues exactly
\* MAX_QUERIES search queries, whatever their outcome, and stops before the rest.
C1_ExactlyBudgetQueries ==
    (pc = "done" /\ Len(songsToEnrich) > MAX_QUERIES)
        => (issued = MAX_QUERIES /\ i < Len(songsToEnrich))

HasAllThree(song) ==
    /\ song.itunesTrackId # Undefined
    /\ song.previewUrl # Undefined
    /\ song.albumArt # Undefined

\* C2: no query is issued for a record without a title or for one whose three
\* metadata fields were all set by an earlier accept, whatever their values.
C2_NoQueryForEnriched ==
    pc = "fetch" => (Truthy(songs[Cur].title) /\ ~HasAllThree(songs[Cur]))

\* the answer equals "y" or "yes" up to the case of its letters
IsYes(answer) ==
    \/ Len(answer) = 1 /\ answer[1] \in {"y", "Y"}
    \/ /\ Len(answer) = 3
       /\ answer[1] \in {"y", "Y"}
       /\ answer[2] \in {"e", "E"}
       /\ answer[3] \in {"s", "S"}

Committed(song, cand) ==
    /\ song.itunesTrackId = toString(cand.trackId)
    /\ song.previewUrl = (IF cand.previewUrl = Undefined THEN <<>> ELSE cand.previewUrl)
    /\ song.albumArt = getHighResArtwork(cand.artworkUrl100)

\* C3: metadata is committed only for an 'exact' match, without a prompt, or after
\* the operator answered yes; a 'partial' or 'none' match waits for the prompt, and
\* any other answer, the empty one included, commits nothing.
C3_CommitOnlyExactOrYes ==
    [][ (pc \in {"fetch", "prompt"}) =>
          /\ (songs' # songs \/ enrichedCount' # enrichedCount)
                => \/ pc = "fetch" /\ matchType' = "exact" /\ pc' # "prompt"
                   \/ pc = "prompt" /\ IsYes(lastOp'.answer)
          /\ (pc = "fetch" /\ lastOp'.log = "Updated")
                => (matchType' = "exact" /\ Committed(songs'[Cur], bestMatch'))
          /\ (pc = "fetch" /\ lastOp'.log \in {"Updated", "Use this result?"})
                => (matchType' = "exact" <=> pc' # "prompt")
          /\ (pc = "fetch" /\ pc' = "prompt")
                => (matchType' \in {"partial", "none"} /\ songs' = songs)
          /\ (pc = "prompt" /\ IsYes(lastOp'.answer))
                => Committed(songs'[Cur], bestMatch)
          /\ (pc = "prompt" /\ ~IsYes(lastOp'.answer))
                => (songs' = songs /\ enrichedCount' = enrichedCount)
      ]_vars

C3_Witness ==
    /\ pc = "sleep"
    /\ lastOp.log = "Updated" /\ IsYes(lastOp.answer)
    /\ matchType = "none"
    /\ Committed(songs[Cur], bestMatch)

SameBase(a, b) ==
    /\ a.id = b.id /\ a.title = b.title /\ a.artist = b.artist /\ a.album = b.album
    /\ a.year = b.year /\ a.page = b.page /\ a.characters = b.characters

\* the records the loop has got to
Reached ==
    {songsToEnrich[k] :
        k \in 1..(IF pc \in {"fetch", "prompt", "sleep"} THEN i + 1 ELSE i)}

FrameInv ==
    (InRun \/ pc = "done") =>
        /\ Len(songs) = Len(startSongs)
        /\ \A k \in 1..Len(songs) :
              /\ SameBase(songs[k], startSongs[k])
              /\ k \notin Reached => songs[k] = startSongs[k]
        /\ Len(storage) = Len(startSongs)
        /\ \A k \in 1..Len(storage) : SameBase(storage[k], startSongs[k])
        /\ enrichedCount + skippedCount =
              (IF pc \in {"fetch", "prompt"} THEN Cardinality(Reached) - 1
               ELSE Cardinality(Reached))

FrameStep ==
    (pc \in {"fetch", "prompt"} /\ pc' # "prompt") =>
        \/ /\ lastOp'.log = "Updated"
           /\ enrichedCount' = enrichedCount + 1 /\ skippedCount' = skippedCount
           /\ \A k \in 1..Len(songs) : k # Cur => songs'[k] = songs[k]
        \/ /\ lastOp'.log \in {"No results found", "No suitable match found",
                                "Skipped", "Error"}
           /\ skippedCount' = skippedCount + 1 /\ enrichedCount' = enrichedCount
           /\ songs' = songs

\* C4: a run changes only the three metadata fields of accepted records; number,
\* order and the other fields of every record stay, and a record with no candidate,
\* a rejected candidate or never reached is unchanged and, if queried, counted skipped.
C4_Frame == []FrameInv /\ [][FrameStep]_vars

C4_Witness ==
    /\ pc = "done" /\ writes = 1
    /\ enrichedCount > 0 /\ skippedCount > 0 /\ i < Len(songsToEnrich)
    /\ storage # startSongs

IsFailure(kind) == kind \in {"network", "status", "json", "shape"}

\* C5: a failed search leaves the record unchanged, counts it skipped and goes on
\* with the next record; a run ends only at the end of the list or on the budget.
C5_FailureIsSkipped ==
    /\ [][ (pc = "fetch" /\ IsFailure(lastOp'.resp)) =>
             /\ songs' = songs
             /\ skippedCount' = skippedCount + 1 /\ enrichedCount' = enrichedCount
             /\ i' = i + 1 /\ pc' = "loop"
         ]_vars
    /\ [](pc \in {"write", "done"} =>
             (i = Len(songsToEnrich) \/ queryCount >= MAX_QUERIES))

C5_Witness ==
    /\ lastOp.errors > 0 /\ lastOp.log = "Updated"
    /\ i > 0

\* C6, as claimed: every invocation ends having written the record set exactly once.
C6_AlwaysWritesOnce == pc = "done" => writes = 1

\* C6, amended: an invocation that finds a record to enrich writes the full record
\* set exactly once, after the loop, also when nothing was changed or the budget
\* stopped it; one that finds none returns without writing.
C6_WritesOnceAfterLoop ==
    /\ pc = "done" => writes = (IF Len(songsToEnrich) = 0 THEN 0 ELSE 1)
    /\ (pc = "done" /\ Len(songsToEnrich) > 0) => storage = JsonRoundTrip(songs)
    /\ InRun => (writes = 0 /\ storage = startSongs)

C6_Witness ==
    /\ pc = "done" /\ writes = 1
    /\ enrichedCount = 0
    /\ storage = startSongs

NonEmptyKept(before, after) ==
    /\ Truthy(before.itunesTrackId) => Truthy(after.itunesTrackId)
    /\ Truthy(before.previewUrl) => Truthy(after.previewUrl)
    /\ Truthy(before.albumArt) => Truthy(after.albumArt)

\* C7: a metadata field of a stored record that holds a non-empty value is never
\* left empty or absent by a later step.
C7_NeverCleared ==
    [][\A k \in 1..Len(storage) : NonEmptyKept(storage[k], storage'[k])]_vars

-----------------------------------------------------------------------------
(* findBestMatch applied to every candidate list and expected album within bounds *)

MaxCandidates == 2   \* candidates in a response
MaxAlbumLen   == 2   \* characters of an album name

AlbumChars == {"x", "Y", " "}

AlbumNames == UNION {[1..n -> AlbumChars] : n \in 0..MaxAlbumLen}

\* candidates told apart by their track ids
CandidateList(names) ==
    [k \in 1..Len(names) |-> Candidate(k, names[k], Undefined, Undefined)]

MatchInit ==
    /\ \E n \in 0..MaxCandidates :
          \E names \in [1..n -> AlbumNames] : mResults = CandidateList(names)
    /\ mExpected \in AlbumNames
    /\ mOut = <<Null, "none">>
    /\ mPc = "call"

ApplyFindBestMatch ==
    /\ mPc = "call"
    /\ mOut' = findBestMatch(mResults, mExpected)
    /\ mPc' = "returned"
    /\ UNCHANGED <<mResults, mExpected>>

InitMatch == MatchInit /\ EnrichIdle /\ UiIdle /\ ParseIdle /\ RowIdle

NextMatch == ApplyFindBestMatch /\ UNCHANGED <<enrichVars, uiVars, parseVars, rowVars>>

SpecMatch == InitMatch /\ [][NextMatch]_vars

Normalized(name) == trim(toLowerCase(name))

Blank(name) == \A k \in 1..Len(name) : name[k] = " "

ExactAt(k) == Normalized(mResults[k].collectionName) = Normalized(mExpected)

PartialAt(k) ==
    \/ includes(Normalized(mResults[k].collectionName), Normalized(mExpected))
    \/ includes(Normalized(mExpected), Normalized(mResults[k].collectionName))

\* the first index of the list with the property, the list having one
IsFirst(k, P(_)) == P(k) /\ \A j \in 1..(k - 1) : ~P(j)

\* C8: findBestMatch follows the tier order: no candidate for the empty list; the
\* first candidate as 'partial' for a blank album; else the first exact candidate;
\* else the first containing or contained one as 'partial'; else the first as 'none'.
C8_TierOrder ==
    mPc = "returned" =>
        LET n == Len(mResults)
        IN  IF n = 0 THEN mOut[1] = Null
            ELSE IF Blank(mExpected) THEN mOut = <<mResults[1], "partial">>
            ELSE IF \E k \in 1..n : ExactAt(k)
                 THEN \E k \in 1..n : IsFirst(k, ExactAt) /\ mOut = <<mResults[k], "exact">>
            ELSE IF \E k \in 1..n : PartialAt(k)
                 THEN \E k \in 1..n : IsFirst(k, PartialAt) /\ mOut = <<mResults[k], "partial">>
            ELSE mOut = <<mResults[1], "none">>

\* an exact match behind an earlier partial match
C8_Witness ==
    /\ mPc = "returned"
    /\ Len(mResults) = 2
    /\ PartialAt(1) /\ ~ExactAt(1) /\ ExactAt(2)
    /\ mOut = <<mResults[2], "exact">>

-----------------------------------------------------------------------------
(* App (App.tsx 6-112): the current index and the audio element *)

MaxSongs  == 4   \* records in the songs.json the page loads
MaxEvents == 2   \* media events waiting for their handler

\* line 77: the element has something to play when the source has a URL
HasSource(index) ==
    /\ index + 1 \in DOMAIN uiSongs
    /\ ~Falsy(uiSongs[index + 1].previewUrl)

\* lines 53-111: what the component renders in the current state
Render ==
    [muteLabel |-> IF isMuted THEN "unmute" ELSE "mute",
     img       |-> [src |-> uiSongs[currentIndex + 1].albumArt],
     audio     |-> [key |-> currentIndex,
                    source |-> [src |-> uiSongs[currentIndex + 1].previewUrl]],
     playLabel |-> IF isPlaying THEN "pause" ELSE "play",
     prevDisabled |-> currentIndex = 0,
     nextDisabled |-> currentIndex = numSongs - 1]

\* an element that outlives the change of the index and keeps its muted flag
setCurrentIndex_sameElement(index) ==
    /\ currentIndex' = index
    /\ IF index = currentIndex
       THEN UNCHANGED <<audioMuted, audioPaused, audioEvents>>
       ELSE /\ UNCHANGED audioMuted
            /\ \/ HasSource(index) /\ audioPaused' = FALSE /\ audioEvents' = <<"play">>
               \/ audioPaused' = TRUE /\ audioEvents' = <<>>

\* <audio key={currentIndex} autoPlay>: a new index mounts a new element, not
\* muted; playback starts by itself or not (no source, autoplay refused), and
\* the listeners of the old element are gone with it
setCurrentIndex(index) ==
    /\ currentIndex' = index
    /\ IF index = currentIndex
       THEN UNCHANGED <<audioMuted, audioPaused, audioEvents>>
       ELSE /\ audioMuted' = FALSE
            /\ \/ HasSource(index) /\ audioPaused' = FALSE /\ audioEvents' = <<"play">>
               \/ audioPaused' = TRUE /\ audioEvents' = <<>>

\* lines 10-14
handlePrev ==
    IF currentIndex > 0
    THEN setCurrentIndex(currentIndex - 1)
    ELSE UNCHANGED <<currentIndex, audioMuted, audioPaused, audioEvents>>

\* a guard that lets the index run one past the end
handleNext_offByOne ==
    IF currentIndex < numSongs
    THEN setCurrentIndex(currentIndex + 1)
    ELSE UNCHANGED <<currentIndex, audioMuted, audioPaused, audioEvents>>

\* lines 16-20
handleNext ==
    IF currentIndex < numSongs - 1
    THEN setCurrentIndex(currentIndex + 1)
    ELSE UNCHANGED <<currentIndex, audioMuted, audioPaused, audioEvents>>

\* lines 42-48: ArrowLeft
KeyArrowLeft ==
    /\ handlePrev
    /\ uiLast' = "ArrowLeft"
    /\ UNCHANGED <<numSongs, uiSongs, isPlaying, isMuted>>

\* lines 42-48: ArrowRight
KeyArrowRight ==
    /\ handleNext
    /\ uiLast' = "ArrowRight"
    /\ UNCHANGED <<numSongs, uiSongs, isPlaying, isMuted>>

\* lines 87-93: a click on prev; a disabled button runs no handler
ClickPrev ==
    /\ IF currentIndex = 0
       THEN UNCHANGED <<currentIndex, audioMuted, audioPaused, audioEvents>>
       ELSE setCurrentIndex(currentIndex - 1)
    /\ uiLast' = "clickPrev"
    /\ UNCHANGED <<numSongs, uiSongs, isPlaying, isMuted>>

\* lines 94-99: a click on next
ClickNext ==
    /\ IF currentIndex = numSongs - 1
       THEN UNCHANGED <<currentIndex, audioMuted, audioPaused, audioEvents>>
       ELSE setCurrentIndex(currentIndex + 1)
    /\ uiLast' = "clickNext"
    /\ UNCHANGED <<numSongs, uiSongs, isPlaying, isMuted>>

\* lines 34-39
toggleMute ==
    /\ audioMuted' = ~audioMuted
    /\ isMuted' = ~audioMuted
    /\ uiLast' = "toggleMute"
    /\ UNCHANGED <<numSongs, uiSongs, currentIndex, isPlaying, audioPaused, audioEvents>>

\* lines 26-32: pause() and play() change the element and queue its event
togglePlayPause ==
    /\ Len(audioEvents) < MaxEvents
    /\ IF isPlaying
       THEN IF audioPaused
            THEN UNCHANGED <<audioPaused, audioEvents>>
            ELSE audioPaused' = TRUE /\ audioEvents' = Append(audioEvents, "pause")
       ELSE IF audioPaused
            THEN \/ /\ HasSource(currentIndex)
                    /\ audioPaused' = FALSE /\ audioEvents' = Append(audioEvents, "play")
                 \/ UNCHANGED <<audioPaused, audioEvents>>
            ELSE UNCHANGED <<audioPaused, audioEvents>>
    /\ uiLast' = "togglePlayPause"
    /\ UNCHANGED <<numSongs, uiSongs, currentIndex, isPlaying, isMuted, audioMuted>>

\* the 30-second preview reaches its end
PlaybackEnds ==
    /\ ~audioPaused
    /\ Len(audioEvents) < MaxEvents
    /\ audioPaused' = TRUE
    /\ audioEvents' = Append(audioEvents, "ended")
    /\ uiLast' = "playbackEnds"
    /\ UNCHANGED <<numSongs, uiSongs, currentIndex, isPlaying, isMuted, audioMuted>>

\* lines 73-75: onPlay, onPause, onEnded
MediaEvent ==
    /\ audioEvents # <<>>
    /\ isPlaying' = (Head(audioEvents) = "play")
    /\ audioEvents' = Tail(audioEvents)
    /\ uiLast' = "mediaEvent"
    /\ UNCHANGED <<numSongs, uiSongs, currentIndex, isMuted, audioMuted, audioPaused>>

\* the records a songs.json holds, as far as the page reads them: one enriched,
\* one that the enrichment never reached (JSON keeps no undefined field)
UiSongKinds ==
    {[title |-> <<"a">>, characters |-> <<<<"K">>>>, previewUrl |-> <<"u">>, albumArt |-> HighRes],
     [title |-> <<"b">>, characters |-> <<<<"S">>>>, previewUrl |-> Undefined,
      albumArt |-> Undefined]}

\* lines 7-8, 22-24, 69-72: the first render
UiInit ==
    /\ numSongs \in 1..MaxSongs
    /\ uiSongs \in [1..numSongs -> UiSongKinds]
    /\ currentIndex = 0
    /\ isPlaying = FALSE /\ isMuted = FALSE
    /\ audioMuted = FALSE
    /\ \/ HasSource(0) /\ audioPaused = FALSE /\ audioEvents = <<"play">>
       \/ audioPaused = TRUE /\ audioEvents = <<>>
    /\ uiLast = "mount"

InitUI == UiInit /\ EnrichIdle /\ MatchIdle /\ ParseIdle /\ RowIdle

NextUI ==
    \/ KeyArrowLeft /\ UNCHANGED <<enrichVars, matchVars, parseVars, rowVars>>
    \/ KeyArrowRight /\ UNCHANGED <<enrichVars, matchVars, parseVars, rowVars>>
    \/ ClickPrev /\ UNCHANGED <<enrichVars, matchVars, parseVars, rowVars>>
    \/ ClickNext /\ UNCHANGED <<enrichVars, matchVars, parseVars, rowVars>>
    \/ toggleMute /\ UNCHANGED <<enrichVars, matchVars, parseVars, rowVars>>
    \/ togglePlayPause /\ UNCHANGED <<enrichVars, matchVars, parseVars, rowVars>>
    \/ PlaybackEnds /\ UNCHANGED <<enrichVars, matchVars, parseVars, rowVars>>
    \/ MediaEvent /\ UNCHANGED <<enrichVars, matchVars, parseVars, rowVars>>

SpecUI == InitUI /\ [][NextUI]_vars

\* C9: the current index stays within [0, numSongs - 1]; prev at the first index
\* and next at the last leave it unchanged, otherwise they move it by exactly one.
C9_NavigationInBounds ==
    /\ [](currentIndex \in 0..(numSongs - 1))
    /\ [][ /\ uiLast' \in {"ArrowLeft", "clickPrev"} =>
                currentIndex' = (IF currentIndex = 0 THEN 0 ELSE currentIndex - 1)
           /\ uiLast' \in {"ArrowRight", "clickNext"} =>
                currentIndex' = (IF currentIndex = numSongs - 1 THEN currentIndex
                                 ELSE currentIndex + 1)
         ]_vars

C9_Witness ==
    /\ numSongs = MaxSongs
    /\ currentIndex = numSongs - 1
    /\ uiLast = "ArrowRight"

-----------------------------------------------------------------------------
(* The CSV parser (App.tsx 145-232) *)

\* parseCSVRow (App.tsx 145-167): the loop over the characters of the row
RECURSIVE parseCSVRowFrom(_, _, _, _, _)
parseCSVRowFrom(row, k, fields, currentField, inQuotes) ==
    IF k > Len(row) THEN Append(fields, trim(currentField))
    ELSE IF row[k] = "\""
         THEN parseCSVRowFrom(row, k + 1, fields, currentField, ~inQuotes)
    ELSE IF row[k] = "," /\ ~inQuotes
         THEN parseCSVRowFrom(row, k + 1, Append(fields, trim(currentField)), <<>>, inQuotes)
    ELSE parseCSVRowFrom(row, k + 1, fields, Append(currentField, row[k]), inQuotes)

\* a parser that takes the row to begin inside a quoted field
parseCSVRow_startQuoted(row) == parseCSVRowFrom(row, 1, <<>>, <<>>, TRUE)

parseCSVRow(row) == parseCSVRowFrom(row, 1, <<>>, <<>>, FALSE)

\* String.prototype.split(',')
RECURSIVE splitFrom(_, _, _, _)
splitFrom(s, k, parts, current) ==
    IF k > Len(s) THEN Append(parts, current)
    ELSE IF s[k] = "," THEN splitFrom(s, k + 1, Append(parts, current), <<>>)
    ELSE splitFrom(s, k + 1, parts, Append(current, s[k]))

split(s) == splitFrom(s, 1, <<>>, <<>>)

RECURSIVE digitsValue(_, _, _)
digitsValue(s, k, acc) ==
    IF k > Len(s) \/ ~IsDigit(s[k]) THEN acc
    ELSE digitsValue(s, k + 1, 10 * acc + DigitVal(s[k]))

\* parseInt(s, 10): white space, an optional sign, then the leading digits; NaN
\* when there is no digit (the text "undefined" for an undefined argument)
parseInt(s) ==
    IF s = Undefined THEN NaN
    ELSE
      LET keep == {k \in 1..Len(s) : ~IsSpace(s[k])}
          from == IF keep = {} THEN Len(s) + 1
                  ELSE CHOOSE k \in keep : \A j \in keep : k <= j
          signed == from <= Len(s) /\ s[from] \in {"-", "+"}
          first == IF signed THEN from + 1 ELSE from
      IN  IF first > Len(s) \/ ~IsDigit(s[first]) THEN NaN
          ELSE IF signed /\ s[from] = "-" THEN Num(0 - digitsValue(s, first, 0))
          ELSE Num(digitsValue(s, first, 0))

\* parseFirstPage (App.tsx 172-175); pageStr.split throws on undefined
parseFirstPageThrows(pageStr) == pageStr = Undefined

parseFirstPage(pageStr) == parseInt(trim(split(pageStr)[1]))

RECURSIVE nonEmpty(_, _)
nonEmpty(parts, k) ==
    IF k > Len(parts) THEN <<>>
    ELSE IF Len(parts[k]) > 0 THEN <<parts[k]>> \o nonEmpty(parts, k + 1)
    ELSE nonEmpty(parts, k + 1)

\* parseCharacters (App.tsx 180-182); charStr.split throws on undefined
parseCharactersThrows(charStr) == charStr = Undefined

parseCharacters(charStr) ==
    LET parts == split(charStr)
    IN  nonEmpty([k \in 1..Len(parts) |-> trim(parts[k])], 1)

\* const [title, artist, album, yearStr, pageStr, characters] = fields
Field(fields, k) == IF k <= Len(fields) THEN fields[k] ELSE Undefined

\* the placeholder character U+2014, written as one element
Dash == <<"EM DASH">>

\* songEntry with the id counted from zero
songEntry_zeroBased(fields, count) ==
    [id |-> toString(count),
     title |-> IF Field(fields, 1) = Dash THEN Undefined ELSE Field(fields, 1),
     artist |-> Field(fields, 2),
     album |-> IF Field(fields, 3) = Dash THEN <<>> ELSE Field(fields, 3),
     year |-> parseInt(Field(fields, 4)),
     page |-> parseFirstPage(Field(fields, 5)),
     characters |-> parseCharacters(Field(fields, 6)),
     itunesTrackId |-> Undefined, previewUrl |-> Undefined, albumArt |-> Undefined]

\* lines 205-213
songEntry(fields, count) ==
    [id |-> toString(count + 1),
     title |-> IF Field(fields, 1) = Dash THEN Undefined ELSE Field(fields, 1),
     artist |-> Field(fields, 2),
     album |-> IF Field(fields, 3) = Dash THEN <<>> ELSE Field(fields, 3),
     year |-> parseInt(Field(fields, 4)),
     page |-> parseFirstPage(Field(fields, 5)),
     characters |-> parseCharacters(Field(fields, 6)),
     itunesTrackId |-> Undefined, previewUrl |-> Undefined, albumArt |-> Undefined]

RECURSIVE nonBlank(_, _)
nonBlank(lines, k) ==
    IF k > Len(lines) THEN <<>>
    ELSE IF trim(lines[k]) # <<>> THEN <<lines[k]>> \o nonBlank(lines, k + 1)
    ELSE nonBlank(lines, k + 1)

\* lines 192-195: the lines that are not blank, without the first of them
dataRows(lines) ==
    LET rows == nonBlank(lines, 1)
    IN  IF Len(rows) = 0 THEN <<>> ELSE Tail(rows)

MaxRows == 2   \* lines of songs.csv after the header

\* the header line: T,A
HeaderRow == <<"T", ",", "A">>

\* six fields: a,b,c,19,24,K
RowPlain == <<"a", ",", "b", ",", "c", ",", "1", "9", ",", "2", "4", ",", "K">>

\* quoted fields holding the delimiter: a,b,c,19,"24, 34","K, ,L"
RowQuoted ==
    <<"a", ",", "b", ",", "c", ",", "1", "9", ",", "\"", "2", "4",
    ",", " ", "3", "4", "\"", ",", "\"", "K", ",", " ", ",", "L", "\"">>

\* year and page are no numbers: a,b,c,y,p,K
RowNotNumeric == <<"a", ",", "b", ",", "c", ",", "y", ",", "p", ",", "K">>

\* all seven columns: a,b,c,19,24,K,z
RowSeven == <<"a", ",", "b", ",", "c", ",", "1", "9", ",", "2", "4", ",", "K", ",", "z">>

\* the placeholder for title and album: -,b,-,19,24,K with U+2014 for -
RowDash == <<"EM DASH", ",", "b", ",", "EM DASH", ",", "1", "9", ",", "2", "4", ",", "K">>

\* four fields: a,b,c,19
RowFour == <<"a", ",", "b", ",", "c", ",", "1", "9">>

\* five fields: a,b,c,19,24
RowFive == <<"a", ",", "b", ",", "c", ",", "1", "9", ",", "2", "4">>

\* a blank line: two spaces
RowBlank == <<" ", " ">>

RowPool == {RowPlain, RowQuoted, RowNotNumeric, RowSeven, RowDash, RowFour, RowFive, RowBlank}

\* lines 199-216: one turn of dataRows.forEach; an exception of the callback is
\* caught nowhere and ends the script before songs.json is written
ParseRow ==
    /\ parsePc = "rows"
    /\ rowIndex < Len(dataRows(csvRows))
    /\ LET fields == parseCSVRow(dataRows(csvRows)[rowIndex + 1])
       IN  IF parseFirstPageThrows(Field(fields, 5)) \/ parseCharactersThrows(Field(fields, 6))
           THEN /\ parsePc' = "crashed"
                /\ UNCHANGED <<outSongs, rowIndex>>
           ELSE /\ outSongs' = Append(outSongs, songEntry(fields, Len(outSongs)))
                /\ rowIndex' = rowIndex + 1
                /\ UNCHANGED parsePc
    /\ UNCHANGED <<csvRows, jsonFile>>

\* lines 227-229
ParseWrite ==
    /\ parsePc = "rows"
    /\ rowIndex = Len(dataRows(csvRows))
    /\ jsonFile' = JsonRoundTrip(outSongs)
    /\ parsePc' = "done"
    /\ UNCHANGED <<csvRows, outSongs, rowIndex>>

ParseInit ==
    /\ \E n \in 0..MaxRows :
          \E body \in [1..n -> RowPool] : csvRows = <<HeaderRow>> \o body
    /\ outSongs = <<>> /\ rowIndex = 0 /\ jsonFile = Undefined
    /\ parsePc = "rows"

InitParse == ParseInit /\ EnrichIdle /\ MatchIdle /\ UiIdle /\ RowIdle

NextParse ==
    \/ ParseRow /\ UNCHANGED <<enrichVars, matchVars, uiVars, rowVars>>
    \/ ParseWrite /\ UNCHANGED <<enrichVars, matchVars, uiVars, rowVars>>

SpecParse == InitParse /\ [][NextParse]_vars

\* C10: no data row, whatever its fields, makes the parser fail the file: every
\* data row yields a record and all records are written.
C10_EveryRowYieldsARecord ==
    /\ parsePc # "crashed"
    /\ parsePc = "done" => Len(jsonFile) = Len(dataRows(csvRows))

\* C11: the header line is skipped and ids are a running counter from 1 in the
\* order of the rows: the k-th data row (the k-th non-blank line after the
\* header) yields the k-th record, whose id is the decimal text of k; ids are
\* pairwise distinct and the written file keeps that order.
C11_IdsFollowRowOrder ==
    LET data == SelectSeq(Tail(csvRows), LAMBDA l : trim(l) # <<>>)
        sameButId(a, b) == [a EXCEPT !.id = <<>>] = [b EXCEPT !.id = <<>>]
    IN  /\ Len(outSongs) <= Len(data)
        /\ \A k \in 1..Len(outSongs) :
              /\ outSongs[k].id = toString(k)
              /\ sameButId(outSongs[k], songEntry(parseCSVRow(data[k]), 0))
        /\ \A j, k \in 1..Len(outSongs) : j # k => outSongs[j].id # outSongs[k].id
        /\ parsePc = "done" =>
              /\ Len(jsonFile) = Len(data)
              /\ \A k \in 1..Len(jsonFile) : jsonFile[k].id = outSongs[k].id

C11_Witness ==
    /\ parsePc = "done"
    /\ Len(jsonFile) >= 2
    /\ jsonFile[2].id = <<"2">>
    /\ jsonFile[1].year # jsonFile[2].year

-----------------------------------------------------------------------------
(* parseCSVRow (App.tsx 145-167) applied to every short row *)

MaxRowLen == 4   \* characters of a drawn row

\* the delimiter, the quote, a letter and white space
RowChars == {",", "\"", "a", " "}

ApplyParseCSVRow ==
    /\ rowPc = "ready"
    /\ rowFields' = parseCSVRow(rowText)
    /\ rowPc' = "done"
    /\ UNCHANGED rowText

RowInit ==
    /\ \E n \in 0..MaxRowLen : \E r \in [1..n -> RowChars] : rowText = r
    /\ rowFields = <<>>
    /\ rowPc = "ready"

InitRow == RowInit /\ EnrichIdle /\ MatchIdle /\ UiIdle /\ ParseIdle

NextRow == ApplyParseCSVRow /\ UNCHANGED <<enrichVars, matchVars, uiVars, parseVars>>

SpecRow == InitRow /\ [][NextRow]_vars

\* the delimiter at position k stands outside quotes: an even number of quote
\* characters precedes it
Unquoted(row, k) ==
    /\ row[k] = ","
    /\ Cardinality({j \in 1..(k - 1) : row[j] = "\""}) % 2 = 0

\* position of the n-th unquoted delimiter; 0 for n = 0, one past the end of the
\* row when there are fewer than n
CutAt(row, n) ==
    LET cuts == {k \in 1..Len(row) : Unquoted(row, k)}
    IN  IF n = 0 THEN 0
        ELSE IF n > Cardinality(cuts) THEN Len(row) + 1
        ELSE CHOOSE c \in cuts : Cardinality({d \in cuts : d < c}) = n - 1

\* C12: a row is split at the delimiters outside quotes only: the number of
\* fields is one plus the number of unquoted delimiters, and the n-th field is
\* the text between the (n-1)-th and the n-th unquoted delimiter, quoted
\* delimiters included, without the quote characters and the outer white space.
C12_SplitsOutsideQuotesOnly ==
    rowPc = "done" =>
      /\ Len(rowFields) = 1 + Cardinality({k \in 1..Len(rowText) : Unquoted(rowText, k)})
      /\ \A n \in 1..Len(rowFields) :
            rowFields[n] =
              trim(SelectSeq(SubSeq(rowText, CutAt(rowText, n - 1) + 1, CutAt(rowText, n) - 1),
                             LAMBDA c : c # "\""))

C12_Witness ==
    /\ rowPc = "done"
    /\ Len(rowText) = 4
    /\ Len(rowFields) = 2
    /\ rowFields[1] = <<",">>

-----------------------------------------------------------------------------
(* The page: character filter, audio element, play and mute state *)

\* the selection that stands for no filter
AllCharacters == <<"A", "l", "l">>

\* the distinct character names of the records
uniqueCharacters(records) ==
    UNION {{records[k].characters[n] : n \in 1..Len(records[k].characters)} :
             k \in 1..Len(records)}

\* the records whose characters contain the selection, in their order
filteredByCharacter(records, selected) ==
    IF selected = AllCharacters THEN records
    ELSE SelectSeq(records,
                   LAMBDA r : \E n \in 1..Len(r.characters) : r.characters[n] = selected)

\* C13: for every character filter selection the current index lies within
\* [0, filteredCount): it addresses the subsequence of the records filtered by
\* the selected character.
C13_IndexWithinFilteredSubsequence ==
    \A selected \in uniqueCharacters(uiSongs) \cup {AllCharacters} :
        currentIndex \in 0..(Len(filteredByCharacter(uiSongs, selected)) - 1)

\* C14: an audio element and its source are rendered for the current record
\* only if that record has preview data; without a preview URL no audio
\* control is present.
C14_AudioOnlyWithPreview ==
    Render.audio # Null => ~Falsy(uiSongs[currentIndex + 1].previewUrl)

\* C17: whenever no media event is waiting, isPlaying is true exactly when the
\* element of the current index is playing, and togglePlayPause then pauses a
\* playing element and plays a paused one.
C17_PlayStateInSync ==
    /\ [](audioEvents = <<>> => (isPlaying <=> ~audioPaused))
    /\ [][(uiLast' = "togglePlayPause" /\ audioEvents = <<>>) =>
             audioPaused' = ~audioPaused]_vars

\* C18: every change of the current index leaves the audio element unmuted, and
\* toggleMute flips the muted flag of the element without changing the index or
\* the play/pause state.
C18_MuteResetOnSwap ==
    [][ /\ currentIndex' # currentIndex => audioMuted' = FALSE
        /\ uiLast' = "toggleMute" =>
              /\ audioMuted' = ~audioMuted
              /\ UNCHANGED <<currentIndex, isPlaying, audioPaused, audioEvents>>
      ]_vars

\* the index has just changed away from an element that was muted
C18_Witness ==
    /\ uiLast \in {"ArrowLeft", "ArrowRight", "clickPrev", "clickNext"}
    /\ isMuted
    /\ ~audioMuted
    /\ ~audioPaused

\* C19: in every state the mute indicator isMuted (shown as 'unmute' when true)
\* equals the muted flag of the mounted audio element.
C19_MuteIndicatorMatchesElement ==
    Render.muteLabel = "unmute" <=> audioMuted

-----------------------------------------------------------------------------
(* Progress of enrichSongs over one and over many runs *)

\* the record at position k of songs.json is titled and misses metadata
StillMissing(k) ==
    /\ k <= Len(storage)
    /\ Truthy(storage[k].title)
    /\ needsEnrichment(storage[k])

\* the running script has sent the query for the record at position k
Queried(k) == pc = "fetch" /\ Cur = k

\* C15: over repeated invocations every titled record that a finished run left
\* without metadata is eventually queried by a later run, whatever happens to
\* the records before it.
C15_EveryRecordEventuallyQueried ==
    \A k \in 1..NumSongs :
        (pc \in {"idle", "done"} /\ StillMissing(k)) ~> Queried(k)

\* C16: within a run no query is issued directly after the previous one: the
\* step before every query but the first is the 500 ms pause.
C16_PauseBetweenQueries ==
    [][(pc = "loop" /\ pc' = "fetch" /\ issued >= 1) => lastOp.log = "slept"]_vars

\* steps the run can still take: the records ahead, then the place in the turn
Measure ==
    CASE pc = "loop"   -> 2 + 5 * (Len(songsToEnrich) - i) + 4
      [] pc = "fetch"  -> 2 + 5 * (Len(songsToEnrich) - i) + 3
      [] pc = "prompt" -> 2 + 5 * (Len(songsToEnrich) - i) + 2
      [] pc = "sleep"  -> 2 + 5 * (Len(songsToEnrich) - i) + 1
      [] pc = "write"  -> 1
      [] OTHER         -> 0

\* C20: a run terminates when its calls return: every step of a run brings it
\* closer to its end; the n-th query of a run is for the n-th record of the
\* filtered list, which follows the storage order, so no record is queried
\* twice; the queries issued never exceed the titled records missing metadata
\* at the start of the run, and the queries answered never exceed MAX_QUERIES.
C20_RunTerminates ==
    /\ [](pc # "idle" =>
            /\ Measure >= 0
            /\ issued <= Len(songsToEnrich)
            /\ Len(songsToEnrich) =
                  Cardinality({k \in 1..Len(startSongs) :
                                 Truthy(startSongs[k].title) /\ needsEnrichment(startSongs[k])})
            /\ \A a, b \in 1..Len(songsToEnrich) : a < b => songsToEnrich[a] < songsToEnrich[b]
            /\ queryCount <= issued
            /\ queryCount <= MAX_QUERIES)
    /\ [][ /\ InRun => Measure' < Measure
           /\ (pc = "loop" /\ pc' = "fetch") => issued' = i + 1
         ]_vars

\* a finished run that lost one query to an error and then used up the budget
C20_Witness ==
    /\ pc = "done"
    /\ queryCount = MAX_QUERIES
    /\ issued = MAX_QUERIES + 1
    /\ issued < Len(songsToEnrich)

====
